---- MODULE Spec2Model ----
(***************************************************************************)
(* Sheeter MCP server (src/src/index.ts): the tool catalog returned by     *)
(* the list-tools handler, the API gateway client callSheeterAPI and the   *)
(* call-tool handler (a ten-branch switch inside one try/catch).           *)
(*                                                                         *)
(* Texts, URLs and error messages are real strings built with \o exactly   *)
(* as the template literals of the source build them.  A JavaScript        *)
(* variable that may be undefined is a record [def |-> FALSE] or           *)
(* [def |-> TRUE, v |-> value]; an argument mapping is [undef |-> TRUE]    *)
(* (no mapping at all) or [undef |-> FALSE, m |-> record of the supplied   *)
(* keys]; a parsed JSON body is [null |-> TRUE] or                         *)
(* [null |-> FALSE, o |-> record of the fields that are there].            *)
(***************************************************************************)
EXTENDS Integers, Sequences, FiniteSets, TLC

VARIABLES
    config,   \* the configuration closed over by createServer
    inv,      \* the tool invocations: position, inputs, requests issued, result
    listed,   \* what the last list-tools request returned
    nList     \* how many list-tools requests were served

vars == <<config, inv, listed, nList>>

----------------------------------------------------------------------------
(* Bounds of the model *)

\* most data rows in a read_sheet response (the listing is cut at 10)
MaxRows == 11
\* largest row index given to delete_rows (the smallest is -1)
MaxIndex == 5
\* list-tools requests served in one behaviour
MaxList == 2
\* tool invocations in flight at once in the concurrent specification
MaxInFlight == 2

----------------------------------------------------------------------------
(* Strings *)

Digit == <<"0", "1", "2", "3", "4", "5", "6", "7", "8", "9">>

RECURSIVE NatStr(_)
NatStr(n) == IF n < 10 THEN Digit[n + 1]
             ELSE NatStr(n \div 10) \o Digit[(n % 10) + 1]

\* Number.prototype.toString / `${n}` of an integer
NumStr(n) == IF n < 0 THEN "-" \o NatStr(0 - n) ELSE NatStr(n)

\* Array.prototype.join on an array of strings
RECURSIVE Join(_, _)
Join(strs, sep) ==
    IF Len(strs) = 0 THEN ""
    ELSE IF Len(strs) = 1 THEN strs[1]
    ELSE strs[1] \o sep \o Join(Tail(strs), sep)

\* s contains sub as a substring
Contains(s, sub) ==
    \E i \in 1..(Len(s) - Len(sub) + 1) : SubSeq(s, i, i + Len(sub) - 1) = sub

\* the part of a URL before its query string
RECURSIVE BeforeQuery(_)
BeforeQuery(s) ==
    IF Len(s) = 0 \/ SubSeq(s, 1, 1) = "?" THEN ""
    ELSE SubSeq(s, 1, 1) \o BeforeQuery(SubSeq(s, 2, Len(s)))

\* application/x-www-form-urlencoded serialisation of one character
EncodeChar(c) ==
    CASE c = ":" -> "%3A"
      [] c = " " -> "+"
      [] c = "!" -> "%21"
      [] c = "/" -> "%2F"
      [] c = "?" -> "%3F"
      [] c = "&" -> "%26"
      [] c = "=" -> "%3D"
      [] OTHER   -> c

RECURSIVE UrlEncode(_)
UrlEncode(s) ==
    IF Len(s) = 0 THEN ""
    ELSE EncodeChar(SubSeq(s, 1, 1)) \o UrlEncode(SubSeq(s, 2, Len(s)))

\* new URLSearchParams({...}).toString(): pairs is a sequence of <<key, value>>
RECURSIVE URLSearchParams(_)
URLSearchParams(pairs) ==
    IF Len(pairs) = 0 THEN ""
    ELSE UrlEncode(pairs[1][1]) \o "=" \o UrlEncode(pairs[1][2])
         \o (IF Len(pairs) = 1 THEN "" ELSE "&" \o URLSearchParams(Tail(pairs)))

----------------------------------------------------------------------------
(* JavaScript values *)

Undefined == [def |-> FALSE]
Def(v)    == [def |-> TRUE, v |-> v]

\* const { k } = args, once args is known to be an object
Prop(m, k) == IF k \in DOMAIN m THEN Def(m[k]) ELSE Undefined

\* a default that replaces the supplied value too
WithDefaultAlways(x, d) == Def(d)

\* const { k = d } = args
WithDefault(x, d) == IF x.def THEN x ELSE Def(d)

\* `${x}` of a string variable, and of a number variable
StrOf(x) == IF x.def THEN x.v ELSE "undefined"
NumOf(x) == IF x.def THEN NumStr(x.v) ELSE "undefined"

\* errors and completions of a block of code
Error(name, message) == [name |-> name, message |-> message]
Throw(e)  == [thrown |-> TRUE, error |-> e]
Return(v) == [thrown |-> FALSE, value |-> v]

\* JSON.stringify of an object literal: properties that are undefined are left out
JSONStringify(o) ==
    [k \in {j \in DOMAIN o : o[j].def} |-> o[k].v]

JNull   == [null |-> TRUE]
JObj(o) == [null |-> FALSE, o |-> o]

\* result.k: a property read throws on null, and gives undefined when the key is absent
HasField(j, k) == ~j.null /\ k \in DOMAIN j.o

----------------------------------------------------------------------------
(* The configuration: configSchema *)

DefaultBaseUrl == "https://sheeter-2.onrender.com"

Configs == {[apiKey |-> "key-A", baseUrl |-> DefaultBaseUrl],
            [apiKey |-> "key-B", baseUrl |-> "http://localhost:3000"]}

----------------------------------------------------------------------------
(* The tool catalog: the list-tools handler *)

NoDefaults == [k \in {} |-> ""]

Tool(name, properties, required, defaults) ==
    [name |-> name,
     inputSchema |-> [type |-> "object", properties |-> properties,
                      required |-> required, defaults |-> defaults]]

\* the tools array of the list-tools result
CatalogTools ==
    <<
        Tool("create_spreadsheet", <<"title">>, <<"title">>, NoDefaults),
        Tool("read_sheet", <<"sheetId", "range", "majorDimension", "valueRenderOption">>,
             <<"sheetId">>,
             [range |-> "A:Z", majorDimension |-> "ROWS",
              valueRenderOption |-> "FORMATTED_VALUE"]),
        Tool("write_sheet", <<"sheetId", "range", "values", "valueInputOption">>,
             <<"sheetId", "range", "values">>,
             [valueInputOption |-> "USER_ENTERED"]),
        Tool("append_to_sheet", <<"sheetId", "values", "valueInputOption">>,
             <<"sheetId", "values">>,
             [valueInputOption |-> "USER_ENTERED"]),
        Tool("clear_range", <<"sheetId", "range">>, <<"sheetId", "range">>, NoDefaults),
        Tool("batch_get_ranges", <<"sheetId", "ranges", "majorDimension", "valueRenderOption">>,
             <<"sheetId", "ranges">>,
             [majorDimension |-> "ROWS", valueRenderOption |-> "FORMATTED_VALUE"]),
        Tool("batch_update_ranges", <<"sheetId", "data", "valueInputOption">>,
             <<"sheetId", "data">>,
             [valueInputOption |-> "USER_ENTERED"]),
        Tool("get_sheet_metadata", <<"sheetId">>, <<"sheetId">>, NoDefaults),
        Tool("delete_rows", <<"sheetId", "startIndex", "endIndex", "sheetTabId">>,
             <<"sheetId", "startIndex", "endIndex">>,
             [sheetTabId |-> 0]),
        Tool("batch_update_spreadsheet", <<"sheetId", "requests">>,
             <<"sheetId", "requests">>, NoDefaults) >>

\* a catalog that advertises a tool the switch has no branch for
ListToolsExtraTool ==
    [tools |-> Append(CatalogTools,
                      Tool("delete_sheet", <<"sheetId">>, <<"sheetId">>, NoDefaults))]

\* a catalog whose write_sheet entry does not require values
ListToolsLooseRequired ==
    [tools |-> [CatalogTools EXCEPT ![3].inputSchema.required = <<"sheetId", "range">>]]

\* server.setRequestHandler(ListToolsRequestSchema, ...): the returned object
ListTools == [tools |-> CatalogTools]

\* the names of the catalog
CatalogNames == {ListTools.tools[i].name : i \in DOMAIN ListTools.tools}

----------------------------------------------------------------------------
(* The API gateway client: callSheeterAPI *)

\* what the remote end can do with a request
Failure == [failed |-> TRUE]
OkJson(j) == [failed |-> FALSE, ok |-> TRUE, status |-> 200, statusText |-> "OK",
              valid |-> TRUE, json |-> j]
OkNotJson == [failed |-> FALSE, ok |-> TRUE, status |-> 200, statusText |-> "OK",
              valid |-> FALSE]
NotOk(status, statusText, text) ==
    [failed |-> FALSE, ok |-> FALSE, status |-> status, statusText |-> statusText,
     text |-> text]

\* a client that ignores options.method
SheeterRequestAlwaysGet(cfg, endpoint, options) ==
    [url     |-> cfg.baseUrl \o endpoint,
     method  |-> "GET",
     headers |-> (IF "headers" \in DOMAIN options THEN options.headers ELSE <<>>)
                 @@ [Authorization |-> "Bearer " \o cfg.apiKey]
                 @@ ("Content-Type" :> "application/json"),
     body    |-> Prop(options, "body")]

\* the fetch(url, {...options, headers}) of callSheeterAPI: the request put on the wire
SheeterRequest(cfg, endpoint, options) ==
    [url     |-> cfg.baseUrl \o endpoint,
     method  |-> IF "method" \in DOMAIN options THEN options.method ELSE "GET",
     headers |-> (IF "headers" \in DOMAIN options THEN options.headers ELSE <<>>)
                 @@ [Authorization |-> "Bearer " \o cfg.apiKey]
                 @@ ("Content-Type" :> "application/json"),
     body    |-> Prop(options, "body")]

\* an error message that leaves the response body out
callSheeterAPIWithoutBody(response) ==
    IF response.failed THEN Throw(Error("TypeError", "fetch failed"))
    ELSE IF ~response.ok
    THEN Throw(Error("Error",
             "API call failed: " \o NumStr(response.status) \o " "
             \o response.statusText))
    ELSE IF ~response.valid
    THEN Throw(Error("SyntaxError", "Unexpected end of JSON input"))
    ELSE Return(response.json)

\* callSheeterAPI once fetch has settled: the parsed JSON, or the error thrown
callSheeterAPI(response) ==
    IF response.failed THEN Throw(Error("TypeError", "fetch failed"))
    ELSE IF ~response.ok
    THEN Throw(Error("Error",
             "API call failed: " \o NumStr(response.status) \o " "
             \o response.statusText \o " - " \o response.text))
    ELSE IF ~response.valid
    THEN Throw(Error("SyntaxError", "Unexpected end of JSON input"))
    ELSE Return(response.json)

----------------------------------------------------------------------------
(* The call-tool handler: what each branch of the switch does before its   *)
(* await (the arguments it extracts and the request it hands to            *)
(* callSheeterAPI) and after it (the text it builds from the result).      *)

NoArgs  == [undef |-> TRUE]
Args(m) == [undef |-> FALSE, m |-> m]

NoOptions == [k \in {} |-> ""]

CannotDestructure(k) ==
    Error("TypeError",
          "Cannot destructure property '" \o k \o "' of 'args' as it is undefined.")
CannotRead(of, k) ==
    Error("TypeError", "Cannot read properties of " \o of \o " (reading '" \o k \o "')")

\* await callSheeterAPI(config, endpoint, options)
Call(endpoint, options) == Return([endpoint |-> endpoint, options |-> options])

Min(a, b) == IF a < b THEN a ELSE b

\* `${result.k}` for a string field and for a number field of an object
FieldStr(o, k) == StrOf(Prop(o, k))
FieldNum(o, k) == NumOf(Prop(o, k))

\* ---- case "create_spreadsheet"
CreateSpreadsheetCall(args) ==
    IF args.undef THEN Throw(CannotDestructure("title"))
    ELSE LET title == Prop(args.m, "title")
         IN  Call("/api/sheets/create",
                  [method |-> "POST", body |-> JSONStringify([title |-> title])])

\* a confirmation that leaves the URL out
CreateSpreadsheetTextIdOnly(args, result) ==
    IF result.null THEN Throw(CannotRead("null", "spreadsheetId"))
    ELSE Return("Created spreadsheet: \"" \o StrOf(Prop(args.m, "title"))
                \o "\"\nID: " \o FieldStr(result.o, "spreadsheetId"))

CreateSpreadsheetText(args, result) ==
    IF result.null THEN Throw(CannotRead("null", "spreadsheetId"))
    ELSE Return("Successfully created spreadsheet: \"" \o StrOf(Prop(args.m, "title"))
                \o "\"\nSpreadsheet ID: " \o FieldStr(result.o, "spreadsheetId")
                \o "\nURL: " \o FieldStr(result.o, "spreadsheetUrl"))

\* ---- case "read_sheet"
ReadSheetCall(args) ==
    IF args.undef THEN Throw(CannotDestructure("sheetId"))
    ELSE LET sheetId == Prop(args.m, "sheetId")
             range == WithDefault(Prop(args.m, "range"), "A:Z")
             majorDimension == WithDefault(Prop(args.m, "majorDimension"), "ROWS")
             valueRenderOption ==
                 WithDefault(Prop(args.m, "valueRenderOption"), "FORMATTED_VALUE")
             queryParams == URLSearchParams(<<
                 <<"range", StrOf(range)>>,
                 <<"majorDimension", StrOf(majorDimension)>>,
                 <<"valueRenderOption", StrOf(valueRenderOption)>> >>)
         IN  Call("/api/sheets/" \o StrOf(sheetId) \o "?" \o queryParams, NoOptions)

\* the number of rows read_sheet lists
RowLimit == 10

\* Object.entries(row).map(([key, value]) => `${key}: ${value}`).join(", ")
RowEntries(row) ==
    Join([e \in 1..Len(row) |-> row[e][1] \o ": " \o row[e][2]], ", ")

\* a listing that is not cut at RowLimit
DataTextNoLimit(data) ==
    IF data.def /\ Len(data.v) > 0
    THEN Join([idx \in 1..Len(data.v) |->
                   "Row " \o NumStr((idx - 1) + 1) \o ": " \o RowEntries(data.v[idx])], "\n")
         \o (IF Len(data.v) > RowLimit
             THEN "\n... and " \o NumStr(Len(data.v) - RowLimit) \o " more rows"
             ELSE "")
    ELSE "No data found"

\* dataText: result.data is undefined or an array of rows
DataText(data) ==
    IF data.def /\ Len(data.v) > 0
    THEN LET slice == SubSeq(data.v, 1, Min(Len(data.v), RowLimit))
         IN  Join([idx \in 1..Len(slice) |->
                       "Row " \o NumStr((idx - 1) + 1) \o ": " \o RowEntries(slice[idx])],
                  "\n")
             \o (IF Len(data.v) > RowLimit
                 THEN "\n... and " \o NumStr(Len(data.v) - RowLimit) \o " more rows"
                 ELSE "")
    ELSE "No data found"

\* result.headers?.join(", ") || "No headers"
HeadersText(headers) ==
    IF headers.def /\ Join(headers.v, ", ") # "" THEN Join(headers.v, ", ")
    ELSE "No headers"

ReadSheetText(args, result) ==
    IF result.null THEN Throw(CannotRead("null", "data"))
    ELSE Return("Sheet Data from " \o FieldStr(result.o, "range")
                \o " (" \o FieldNum(result.o, "rowCount") \o " rows):\n\nHeaders: "
                \o HeadersText(Prop(result.o, "headers"))
                \o "\n\nData:\n" \o DataText(Prop(result.o, "data")))

\* ---- case "write_sheet"
WriteSheetCall(args) ==
    IF args.undef THEN Throw(CannotDestructure("sheetId"))
    ELSE LET sheetId == Prop(args.m, "sheetId")
             range == Prop(args.m, "range")
             values == Prop(args.m, "values")
             valueInputOption ==
                 WithDefault(Prop(args.m, "valueInputOption"), "USER_ENTERED")
         IN  Call("/api/sheets/" \o StrOf(sheetId) \o "/values",
                  [method |-> "PUT",
                   body |-> JSONStringify([range |-> range, values |-> values,
                                           valueInputOption |-> valueInputOption])])

WriteSheetText(args, result) ==
    IF result.null THEN Throw(CannotRead("null", "updatedCells"))
    ELSE Return("Successfully updated " \o FieldNum(result.o, "updatedCells")
                \o " cells in range " \o FieldStr(result.o, "updatedRange")
                \o "\nUpdated " \o FieldNum(result.o, "updatedRows")
                \o " rows and " \o FieldNum(result.o, "updatedColumns") \o " columns")

\* ---- case "append_to_sheet"
AppendToSheetCall(args) ==
    IF args.undef THEN Throw(CannotDestructure("sheetId"))
    ELSE LET sheetId == Prop(args.m, "sheetId")
             values == Prop(args.m, "values")
             valueInputOption ==
                 WithDefault(Prop(args.m, "valueInputOption"), "USER_ENTERED")
         IN  Call("/api/sheets/" \o StrOf(sheetId) \o "/append",
                  [method |-> "POST",
                   body |-> JSONStringify([values |-> values,
                                           valueInputOption |-> valueInputOption])])

AppendToSheetText(args, result) ==
    IF result.null THEN Throw(CannotRead("null", "updates"))
    ELSE IF "updates" \notin DOMAIN result.o
    THEN Throw(CannotRead("undefined", "updatedCells"))
    ELSE Return("Successfully appended " \o FieldNum(result.o.updates, "updatedCells")
                \o " cells to the sheet\nData added to range: "
                \o FieldStr(result.o.updates, "updatedRange"))

\* ---- case "clear_range"
ClearRangeCall(args) ==
    IF args.undef THEN Throw(CannotDestructure("sheetId"))
    ELSE LET sheetId == Prop(args.m, "sheetId")
             range == Prop(args.m, "range")
             queryParams == URLSearchParams(<< <<"range", StrOf(range)>> >>)
         IN  Call("/api/sheets/" \o StrOf(sheetId) \o "/values?" \o queryParams,
                  [method |-> "DELETE"])

ClearRangeText(args, result) ==
    IF result.null THEN Throw(CannotRead("null", "clearedRange"))
    ELSE Return("Successfully cleared range " \o FieldStr(result.o, "clearedRange"))

\* ---- case "batch_get_ranges"
BatchGetRangesCall(args) ==
    IF args.undef THEN Throw(CannotDestructure("sheetId"))
    ELSE LET sheetId == Prop(args.m, "sheetId")
             ranges == Prop(args.m, "ranges")
             majorDimension == WithDefault(Prop(args.m, "majorDimension"), "ROWS")
             valueRenderOption ==
                 WithDefault(Prop(args.m, "valueRenderOption"), "FORMATTED_VALUE")
         IN  Call("/api/sheets/" \o StrOf(sheetId) \o "/batch-get",
                  [method |-> "POST",
                   body |-> JSONStringify([ranges |-> ranges,
                                           majorDimension |-> majorDimension,
                                           valueRenderOption |-> valueRenderOption])])

\* `Range ${idx + 1} (${vr.range}): ${vr.values?.length || 0} rows`
RangeLine(vr, idx) ==
    "Range " \o NumStr(idx + 1) \o " (" \o FieldStr(vr, "range") \o "): "
    \o NumStr(IF "values" \in DOMAIN vr THEN Len(vr.values) ELSE 0) \o " rows"

\* result.valueRanges?.map(...).join("\n") || "No ranges returned"
RangeResults(valueRanges) ==
    IF valueRanges.def /\ Len(valueRanges.v) > 0
    THEN Join([i \in 1..Len(valueRanges.v) |-> RangeLine(valueRanges.v[i], i - 1)], "\n")
    ELSE "No ranges returned"

BatchGetRangesText(args, result) ==
    IF result.null THEN Throw(CannotRead("null", "valueRanges"))
    ELSE IF "ranges" \notin DOMAIN args.m THEN Throw(CannotRead("undefined", "length"))
    ELSE Return("Batch get completed for " \o NumStr(Len(args.m.ranges))
                \o " ranges:\n\n" \o RangeResults(Prop(result.o, "valueRanges")))

\* ---- case "batch_update_ranges"
BatchUpdateRangesCall(args) ==
    IF args.undef THEN Throw(CannotDestructure("sheetId"))
    ELSE LET sheetId == Prop(args.m, "sheetId")
             data == Prop(args.m, "data")
             valueInputOption ==
                 WithDefault(Prop(args.m, "valueInputOption"), "USER_ENTERED")
         IN  Call("/api/sheets/" \o StrOf(sheetId) \o "/batch-update",
                  [method |-> "PUT",
                   body |-> JSONStringify([data |-> data,
                                           valueInputOption |-> valueInputOption])])

BatchUpdateRangesText(args, result) ==
    IF result.null THEN Throw(CannotRead("null", "totalUpdatedCells"))
    ELSE IF "data" \notin DOMAIN args.m THEN Throw(CannotRead("undefined", "length"))
    ELSE Return("Batch update completed:\nTotal updated cells: "
                \o FieldNum(result.o, "totalUpdatedCells")
                \o "\nTotal updated ranges: " \o NumStr(Len(args.m.data)))

\* ---- case "get_sheet_metadata"
GetSheetMetadataCall(args) ==
    IF args.undef THEN Throw(CannotDestructure("sheetId"))
    ELSE LET sheetId == Prop(args.m, "sheetId")
         IN  Call("/api/sheets/" \o StrOf(sheetId) \o "/metadata", NoOptions)

\* one line of sheetsInfo; the bullet and the multiplication sign of the
\* source are written * and x here
SheetLine(sheet) ==
    "* " \o FieldStr(sheet, "title") \o " (ID: " \o FieldNum(sheet, "sheetId") \o ", "
    \o FieldNum(sheet.gridProperties, "rowCount") \o " rows x "
    \o FieldNum(sheet.gridProperties, "columnCount") \o " cols)"

\* result.sheets?.map(...).join("\n") || "No sheets found"
SheetsInfo(sheets) ==
    IF sheets.def /\ Len(sheets.v) > 0
    THEN Join([i \in 1..Len(sheets.v) |-> SheetLine(sheets.v[i])], "\n")
    ELSE "No sheets found"

\* a branch that remembers earlier calls: its text tells how many invocations
\* have finished and were not yet handed back
GetSheetMetadataTextRemembering(args, result) ==
    IF result.null THEN Throw(CannotRead("null", "sheets"))
    ELSE Return("Spreadsheet ID: " \o FieldStr(result.o, "spreadsheetId")
                \o "\nEarlier calls: "
                \o NatStr(Cardinality({j \in DOMAIN inv : inv[j].pc = "done"})))

GetSheetMetadataText(args, result) ==
    IF result.null THEN Throw(CannotRead("null", "sheets"))
    ELSE IF "sheets" \in DOMAIN result.o
            /\ \E i \in 1..Len(result.o.sheets) :
                   "gridProperties" \notin DOMAIN result.o.sheets[i]
    THEN Throw(CannotRead("undefined", "rowCount"))
    ELSE IF "properties" \notin DOMAIN result.o
    THEN Throw(CannotRead("undefined", "title"))
    ELSE Return("Spreadsheet: " \o FieldStr(result.o.properties, "title")
                \o "\nSpreadsheet ID: " \o FieldStr(result.o, "spreadsheetId")
                \o "\nLocale: " \o FieldStr(result.o.properties, "locale")
                \o "\nTime Zone: " \o FieldStr(result.o.properties, "timeZone")
                \o "\n\nSheets:\n" \o SheetsInfo(Prop(result.o, "sheets")))

\* ---- case "delete_rows"
DeleteRowsCall(args) ==
    IF args.undef THEN Throw(CannotDestructure("sheetId"))
    ELSE LET sheetId == Prop(args.m, "sheetId")
             startIndex == Prop(args.m, "startIndex")
             endIndex == Prop(args.m, "endIndex")
             sheetTabId == WithDefault(Prop(args.m, "sheetTabId"), 0)
         IN  IF ~startIndex.def \/ ~endIndex.def
             THEN Throw(CannotRead("undefined", "toString"))
             ELSE Call("/api/sheets/" \o StrOf(sheetId) \o "/rows?"
                       \o URLSearchParams(<<
                              <<"startIndex", NumStr(startIndex.v)>>,
                              <<"endIndex", NumStr(endIndex.v)>>,
                              <<"sheetTabId", NumStr(sheetTabId.v)>> >>),
                       [method |-> "DELETE"])

\* a span that takes endIndex as the last deleted row
DeletedSpanInclusiveEnd(startIndex, endIndex) ==
    "Successfully deleted rows from index " \o NumStr(startIndex) \o " to "
    \o NumStr(endIndex) \o " (" \o NumStr(endIndex - startIndex + 1) \o " rows total)"

\* the template literal of the delete_rows result
DeletedSpan(startIndex, endIndex) ==
    "Successfully deleted rows from index " \o NumStr(startIndex) \o " to "
    \o NumStr(endIndex - 1) \o " (" \o NumStr(endIndex - startIndex) \o " rows total)"

DeleteRowsText(args, result) ==
    Return(DeletedSpan(args.m.startIndex, args.m.endIndex))

\* ---- case "batch_update_spreadsheet"
BatchUpdateSpreadsheetCall(args) ==
    IF args.undef THEN Throw(CannotDestructure("sheetId"))
    ELSE LET sheetId == Prop(args.m, "sheetId")
             requests == Prop(args.m, "requests")
         IN  Call("/api/sheets/" \o StrOf(sheetId) \o "/batch-update-spreadsheet",
                  [method |-> "POST",
                   body |-> JSONStringify([requests |-> requests])])

BatchUpdateSpreadsheetText(args, result) ==
    IF "requests" \notin DOMAIN args.m THEN Throw(CannotRead("undefined", "length"))
    ELSE Return("Batch spreadsheet operation completed successfully\nProcessed "
                \o NumStr(Len(args.m.requests))
                \o " requests\nOperation details available in spreadsheet")

----------------------------------------------------------------------------
(* The call-tool handler: switch (name) inside try { } catch (error) { } *)

\* the switch up to the await of the selected branch
SwitchCall(name, args) ==
    CASE name = "create_spreadsheet"       -> CreateSpreadsheetCall(args)
      [] name = "read_sheet"               -> ReadSheetCall(args)
      [] name = "write_sheet"              -> WriteSheetCall(args)
      [] name = "append_to_sheet"          -> AppendToSheetCall(args)
      [] name = "clear_range"              -> ClearRangeCall(args)
      [] name = "batch_get_ranges"         -> BatchGetRangesCall(args)
      [] name = "batch_update_ranges"      -> BatchUpdateRangesCall(args)
      [] name = "get_sheet_metadata"       -> GetSheetMetadataCall(args)
      [] name = "delete_rows"              -> DeleteRowsCall(args)
      [] name = "batch_update_spreadsheet" -> BatchUpdateSpreadsheetCall(args)
      [] OTHER -> Throw(Error("Error", "Unknown tool: " \o name))

\* the selected branch from its await on: result is what callSheeterAPI returned
SwitchText(name, args, result) ==
    CASE name = "create_spreadsheet"       -> CreateSpreadsheetText(args, result)
      [] name = "read_sheet"               -> ReadSheetText(args, result)
      [] name = "write_sheet"              -> WriteSheetText(args, result)
      [] name = "append_to_sheet"          -> AppendToSheetText(args, result)
      [] name = "clear_range"              -> ClearRangeText(args, result)
      [] name = "batch_get_ranges"         -> BatchGetRangesText(args, result)
      [] name = "batch_update_ranges"      -> BatchUpdateRangesText(args, result)
      [] name = "get_sheet_metadata"       -> GetSheetMetadataText(args, result)
      [] name = "delete_rows"              -> DeleteRowsText(args, result)
      [] name = "batch_update_spreadsheet" -> BatchUpdateSpreadsheetText(args, result)

\* how the promise of the handler settles
Fulfilled(value) == [settled |-> "fulfilled", value |-> value]
Rejected(reason) == [settled |-> "rejected", reason |-> reason]

\* return { content: [{ type: "text", text }] }
TextResult(text) == [content |-> <<[type |-> "text", text |-> text]>>]

\* the result built in the catch block
ErrorResult(error) ==
    [content |-> <<[type |-> "text", text |-> "Error: " \o error.message]>>,
     isError |-> TRUE]

\* a catch that handles only the errors callSheeterAPI and the default branch
\* construct, and lets a TypeError or SyntaxError through
TryCatchOnlyPlainErrors(body) ==
    IF body.thrown
    THEN IF body.error.name = "Error" THEN Fulfilled(ErrorResult(body.error))
         ELSE Rejected(body.error)
    ELSE Fulfilled(TextResult(body.value))

\* try { body } catch (error) { return ErrorResult }: body is a completion
TryCatch(body) ==
    IF body.thrown THEN Fulfilled(ErrorResult(body.error))
    ELSE Fulfilled(TextResult(body.value))

\* a client that sends every request twice
FetchCallsTwice(cfg, endpoint, options) ==
    <<SheeterRequest(cfg, endpoint, options), SheeterRequest(cfg, endpoint, options)>>

\* the fetch calls one callSheeterAPI call makes
FetchCalls(cfg, endpoint, options) == <<SheeterRequest(cfg, endpoint, options)>>

----------------------------------------------------------------------------
(* The host and the remote API: the inputs of the model *)

RequestedNames ==
    {"create_spreadsheet", "read_sheet", "write_sheet", "append_to_sheet",
     "clear_range", "batch_get_ranges", "batch_update_ranges", "get_sheet_metadata",
     "delete_rows", "batch_update_spreadsheet", "delete_sheet", "list_sheets"}

Empty == [k \in {} |-> ""]

\* key k absent, or present with a value of S
Opt(k, S) == {Empty} \cup {(k :> v) : v \in S}

SheetIdArg == Opt("sheetId", {"sheet-1"})
Indexes == (0 - 1)..MaxIndex

ArgMaps(name) ==
    CASE name = "create_spreadsheet" -> Opt("title", {"Budget"})
      [] name = "read_sheet" ->
            {a @@ b @@ c @@ d :
                a \in SheetIdArg, b \in Opt("range", {"A1:D10"}),
                c \in Opt("majorDimension", {"COLUMNS"}),
                d \in Opt("valueRenderOption", {"FORMULA"})}
      [] name = "write_sheet" ->
            {a @@ b @@ c @@ d :
                a \in SheetIdArg, b \in Opt("range", {"A1:B2"}),
                c \in Opt("values", {<< <<"x", "y">>, <<"1", "2">> >>}),
                d \in Opt("valueInputOption", {"RAW"})}
      [] name = "append_to_sheet" ->
            {a @@ c @@ d :
                a \in SheetIdArg,
                c \in Opt("values", {<< <<"x", "y">> >>}),
                d \in Opt("valueInputOption", {"RAW"})}
      [] name = "clear_range" ->
            {a @@ b : a \in SheetIdArg, b \in Opt("range", {"A1:B2"})}
      [] name = "batch_get_ranges" ->
            {a @@ b @@ c @@ d :
                a \in SheetIdArg,
                b \in Opt("ranges", {<<>>, <<"A1:B2", "C1:D2">>}),
                c \in Opt("majorDimension", {"COLUMNS"}),
                d \in Opt("valueRenderOption", {"FORMULA"})}
      [] name = "batch_update_ranges" ->
            {a @@ b @@ d :
                a \in SheetIdArg,
                b \in Opt("data", {<<[range |-> "A1:B2", values |-> << <<"x">> >>]>>}),
                d \in Opt("valueInputOption", {"RAW"})}
      [] name = "get_sheet_metadata" -> SheetIdArg
      [] name = "delete_rows" ->
            {a @@ b @@ c @@ d :
                a \in SheetIdArg, b \in Opt("startIndex", Indexes),
                c \in Opt("endIndex", Indexes), d \in Opt("sheetTabId", {3})}
      [] name = "batch_update_spreadsheet" ->
            {a @@ b :
                a \in SheetIdArg,
                b \in Opt("requests", {<<[findReplace |-> "x"], [addSheet |-> "y"]>>})}
      [] OTHER -> {Empty}

\* the argument mappings the host may send with a name
ArgsFor(name) == {NoArgs} \cup {Args(m) : m \in ArgMaps(name)}

Restrict(r, K) == [k \in K |-> r[k]]
SubRecords(r) == {Restrict(r, K) : K \in SUBSET DOMAIN r}

\* data row i of a read_sheet response, as the entries of the row object
Row(i) == << <<"name", "item" \o NatStr(i)>>, <<"qty", NatStr(3 * i)>> >>
Rows(n) == [i \in 1..n |-> Row(i)]

CreateFixture ==
    [spreadsheetId |-> "ssid-77", spreadsheetUrl |-> "https://docs.example/d/ssid-77",
     message |-> "Spreadsheet created"]
UpdateFixture ==
    [updatedCells |-> 6, updatedRange |-> "Sheet1!A1:C2", updatedRows |-> 2,
     updatedColumns |-> 3]
SheetsFixture ==
    <<[sheetId |-> 0, title |-> "Summary",
       gridProperties |-> [rowCount |-> 1000, columnCount |-> 26]],
      [sheetId |-> 42, title |-> "Raw",
       gridProperties |-> [rowCount |-> 500, columnCount |-> 8]]>>
MetadataFixture ==
    [spreadsheetId |-> "ssid-77",
     properties |-> [title |-> "Budget", locale |-> "en_US", timeZone |-> "Asia/Kolkata"],
     sheets |-> SheetsFixture]

\* the JSON bodies the remote API may answer with, by tool
ObjectsFor(name) ==
    CASE name = "create_spreadsheet" -> SubRecords(CreateFixture)
      [] name = "read_sheet" ->
            {a @@ b @@ c :
                a \in {Empty, [range |-> "Sheet1!A1:B12", rowCount |-> 12]},
                b \in Opt("headers", {<<>>, <<"name", "qty">>}),
                c \in Opt("data", {Rows(n) : n \in 0..MaxRows})}
      [] name = "write_sheet" -> SubRecords(UpdateFixture)
      [] name = "append_to_sheet" ->
            Opt("updates",
                SubRecords([updatedCells |-> 4, updatedRange |-> "Sheet1!A5:B6"]))
      [] name = "clear_range" -> Opt("clearedRange", {"Sheet1!A1:B10"})
      [] name = "batch_get_ranges" ->
            Opt("valueRanges",
                {<<>>,
                 <<[range |-> "Sheet1!A1:B2", values |-> << <<"a", "b">>, <<"c", "d">> >>],
                   [range |-> "Sheet1!C1:D2"]>>})
      [] name = "batch_update_ranges" -> Opt("totalUpdatedCells", {8})
      [] name = "get_sheet_metadata" ->
            SubRecords(MetadataFixture)
            \cup {[MetadataFixture EXCEPT !.sheets = <<>>],
                  [MetadataFixture EXCEPT !.sheets = <<[sheetId |-> 5, title |-> "Bare"]>>]}
      [] name = "delete_rows" -> {Empty, [success |-> TRUE, deletedRows |-> 99]}
      [] name = "batch_update_spreadsheet" ->
            {Empty, [spreadsheetId |-> "ssid-77", replies |-> <<>>]}
      [] OTHER -> {Empty}

\* everything fetch may settle with for a request of the tool
Responses(name) ==
    {Failure, OkNotJson, OkJson(JNull)}
    \cup {OkJson(JObj(o)) : o \in ObjectsFor(name)}
    \cup {NotOk(404, "Not Found", "Not Found"),
          NotOk(500, "Internal Server Error", "{\"error\":\"boom\"}"),
          NotOk(401, "Unauthorized", "")}

----------------------------------------------------------------------------
(* The state machine *)

Slots == {1}

Idle == [pc |-> "idle"]

Init ==
    /\ config \in Configs
    /\ inv = [i \in Slots |-> Idle]
    /\ listed = <<>>
    /\ nList = 0

\* a list-tools request is served
ListToolsRequest ==
    /\ nList < MaxList
    /\ listed' = ListTools
    /\ nList' = nList + 1
    /\ UNCHANGED <<config, inv>>

\* a call-tool request arrives and the handler runs to its first await, or to
\* its end when the switch throws before awaiting
CallTool(i, name, args) ==
    /\ inv[i].pc = "idle"
    /\ LET call == SwitchCall(name, args)
       IN  inv' = [inv EXCEPT ![i] =
                IF call.thrown
                THEN [pc |-> "done", name |-> name, args |-> args, requests |-> <<>>,
                      raised |-> TRUE, outcome |-> TryCatch(call)]
                ELSE [pc |-> "awaiting", name |-> name, args |-> args,
                      requests |-> FetchCalls(config, call.value.endpoint,
                                              call.value.options)]]
    /\ UNCHANGED <<config, listed, nList>>

\* locals that live in one variable shared by all invocations: a handler that
\* resumes while another invocation waits finds that invocation's name and
\* arguments in them
LocalsShared(i) ==
    LET others == {j \in DOMAIN inv \ {i} : inv[j].pc = "awaiting"}
        k == IF others = {} THEN i ELSE CHOOSE j \in others : TRUE
    IN  [name |-> inv[k].name, args |-> inv[k].args]

\* const { name, arguments: args } = request.params: the locals of invocation i
Locals(i) == [name |-> inv[i].name, args |-> inv[i].args]

\* fetch settles and the handler runs from its await to its end; concurrent
\* records whether another invocation was waiting for its response then
FetchSettles(i, response) ==
    /\ inv[i].pc = "awaiting"
    /\ LET api  == callSheeterAPI(response)
           body == IF api.thrown THEN api
                   ELSE SwitchText(Locals(i).name, Locals(i).args, api.value)
       IN  inv' = [inv EXCEPT ![i] =
                [pc |-> "done", name |-> inv[i].name, args |-> inv[i].args,
                 requests |-> inv[i].requests, response |-> response,
                 concurrent |-> \E j \in DOMAIN inv \ {i} : inv[j].pc = "awaiting",
                 raised |-> body.thrown, outcome |-> TryCatch(body)]]
    /\ UNCHANGED <<config, listed, nList>>

\* the host has received the result: the invocation is over
Deliver(i) ==
    /\ inv[i].pc = "done"
    /\ inv' = [inv EXCEPT ![i] = Idle]
    /\ UNCHANGED <<config, listed, nList>>

Next ==
    \/ ListToolsRequest
    \/ \E i \in DOMAIN inv, name \in RequestedNames :
           \E args \in ArgsFor(name) : CallTool(i, name, args)
    \/ \E i \in DOMAIN inv :
           inv[i].pc = "awaiting"
           /\ \E response \in Responses(inv[i].name) : FetchSettles(i, response)
    \/ \E i \in DOMAIN inv : Deliver(i)

Spec == Init /\ [][Next]_vars

----------------------------------------------------------------------------
(* Several invocations in flight: the host sends call-tool requests without *)
(* waiting, and the responses of the remote API arrive in any order         *)

ConcNames == {"create_spreadsheet", "get_sheet_metadata"}

ConcArgs(name) ==
    IF name = "create_spreadsheet"
    THEN {Args([title |-> "Budget"]), Args([title |-> "Plan"])}
    ELSE {NoArgs, Args([sheetId |-> "sheet-1"]), Args([sheetId |-> "sheet-2"])}

ConcResponses(name) ==
    {Failure, NotOk(404, "Not Found", "Not Found")}
    \cup (IF name = "create_spreadsheet"
          THEN {OkJson(JObj(CreateFixture)),
                OkJson(JObj([CreateFixture EXCEPT !.spreadsheetId = "ssid-88"]))}
          ELSE {OkJson(JObj(MetadataFixture)),
                OkJson(JObj([MetadataFixture EXCEPT !.sheets = <<>>]))})

InitConc ==
    /\ config \in Configs
    /\ inv = [i \in 1..MaxInFlight |-> Idle]
    /\ listed = <<>>
    /\ nList = 0

NextConc ==
    \/ \E i \in DOMAIN inv, name \in ConcNames :
           \E args \in ConcArgs(name) : CallTool(i, name, args)
    \/ \E i \in DOMAIN inv :
           inv[i].pc = "awaiting"
           /\ \E response \in ConcResponses(inv[i].name) : FetchSettles(i, response)
    \/ \E i \in DOMAIN inv : Deliver(i)

SpecConc == InitConc /\ [][NextConc]_vars

----------------------------------------------------------------------------
(* What the specification says: the table of section 4.1 and the outbound  *)
(* interface of section 6                                                  *)

TableNames ==
    <<"create_spreadsheet", "read_sheet", "write_sheet", "append_to_sheet",
      "clear_range", "batch_get_ranges", "batch_update_ranges", "get_sheet_metadata",
      "delete_rows", "batch_update_spreadsheet">>

TableRequired ==
    [create_spreadsheet       |-> <<"title">>,
     read_sheet               |-> <<"sheetId">>,
     write_sheet              |-> <<"sheetId", "range", "values">>,
     append_to_sheet          |-> <<"sheetId", "values">>,
     clear_range              |-> <<"sheetId", "range">>,
     batch_get_ranges         |-> <<"sheetId", "ranges">>,
     batch_update_ranges      |-> <<"sheetId", "data">>,
     get_sheet_metadata       |-> <<"sheetId">>,
     delete_rows              |-> <<"sheetId", "startIndex", "endIndex">>,
     batch_update_spreadsheet |-> <<"sheetId", "requests">>]

\* method and path of each tool: the path is before \o sheetId \o after
TableRoutes ==
    [create_spreadsheet       |-> [method |-> "POST", id |-> FALSE,
                                   before |-> "/api/sheets/create", after |-> ""],
     read_sheet               |-> [method |-> "GET", id |-> TRUE,
                                   before |-> "/api/sheets/", after |-> ""],
     write_sheet              |-> [method |-> "PUT", id |-> TRUE,
                                   before |-> "/api/sheets/", after |-> "/values"],
     append_to_sheet          |-> [method |-> "POST", id |-> TRUE,
                                   before |-> "/api/sheets/", after |-> "/append"],
     clear_range              |-> [method |-> "DELETE", id |-> TRUE,
                                   before |-> "/api/sheets/", after |-> "/values"],
     batch_get_ranges         |-> [method |-> "POST", id |-> TRUE,
                                   before |-> "/api/sheets/", after |-> "/batch-get"],
     batch_update_ranges      |-> [method |-> "PUT", id |-> TRUE,
                                   before |-> "/api/sheets/", after |-> "/batch-update"],
     get_sheet_metadata       |-> [method |-> "GET", id |-> TRUE,
                                   before |-> "/api/sheets/", after |-> "/metadata"],
     delete_rows              |-> [method |-> "DELETE", id |-> TRUE,
                                   before |-> "/api/sheets/", after |-> "/rows"],
     batch_update_spreadsheet |-> [method |-> "POST", id |-> TRUE,
                                   before |-> "/api/sheets/",
                                   after |-> "/batch-update-spreadsheet"]]

SeqSet(q) == {q[k] : k \in DOMAIN q}
EndsWith(s, t) == Len(s) >= Len(t) /\ SubSeq(s, Len(s) - Len(t) + 1, Len(s)) = t

\* positions of an invocation
Started(i) == inv[i].pc \in {"awaiting", "done"}
Done(i)    == inv[i].pc = "done"
\* the invocation is over and fetch had settled with a response or a failure
Settled(i) == Done(i) /\ "response" \in DOMAIN inv[i]
\* ... with a 2xx response whose body parsed: callSheeterAPI returned
Returned(i) ==
    /\ Settled(i)
    /\ ~inv[i].response.failed /\ inv[i].response.ok /\ inv[i].response.valid
\* ... with a non-2xx response
Refused(i) == Settled(i) /\ ~inv[i].response.failed /\ ~inv[i].response.ok

\* the result object the caller received, its text and its error flag
Result(i)  == inv[i].outcome.value
Text(i)    == Result(i).content[1].text
Flagged(i) == "isError" \in DOMAIN Result(i)
\* the invocation ended with the success text of its branch
Succeeded(i) == Returned(i) /\ inv[i].outcome.settled = "fulfilled" /\ ~Flagged(i)

\* every required argument of the table is in the argument mapping
RequiredPresent(i) ==
    /\ ~inv[i].args.undef
    /\ SeqSet(TableRequired[inv[i].name]) \subseteq DOMAIN inv[i].args.m

----------------------------------------------------------------------------
(* The claims *)

\* C1: every finished invocation, whatever the name, the arguments and the
\* remote outcome, hands the caller a result object with exactly one text
\* content item; nothing is thrown to the caller; isError is there, and TRUE,
\* exactly when an error was raised during the invocation.
C1_EveryCallReturnsAResult ==
    \A i \in DOMAIN inv :
        Done(i) =>
            /\ inv[i].outcome.settled = "fulfilled"
            /\ DOMAIN Result(i) \subseteq {"content", "isError"}
            /\ Len(Result(i).content) = 1
            /\ DOMAIN Result(i).content[1] = {"type", "text"}
            /\ Result(i).content[1].type = "text"
            /\ Flagged(i) <=> inv[i].raised
            /\ Flagged(i) => Result(i).isError = TRUE

\* an error raised while formatting a parsed 2xx body came back as an error result
C1_Witness ==
    \E i \in DOMAIN inv :
        /\ Returned(i) /\ inv[i].raised
        /\ inv[i].name = "append_to_sheet"
        /\ inv[i].outcome.settled = "fulfilled" /\ Flagged(i)

\* C2: a non-2xx answer to the request of any tool ends the invocation with
\* isError = true and the text "Error: API call failed: <status> <statusText> -
\* <body>", which holds the status and the body; no success text is produced.
C2_NonSuccessStatusIsReported ==
    \A i \in DOMAIN inv :
        Refused(i) =>
            LET r == inv[i].response
            IN  /\ inv[i].outcome.settled = "fulfilled"
                /\ Flagged(i) /\ Result(i).isError = TRUE
                /\ Text(i) = "Error: API call failed: " \o NumStr(r.status) \o " "
                             \o r.statusText \o " - " \o r.text
                /\ Contains(Text(i), NumStr(r.status))
                /\ Contains(Text(i), r.text)
                /\ ~Contains(Text(i), "Success") /\ ~Contains(Text(i), "completed")

\* status 404 with body Not Found, for a catalog tool
C2_Witness ==
    \E i \in DOMAIN inv :
        /\ Refused(i) /\ inv[i].name = "get_sheet_metadata"
        /\ inv[i].response.status = 404 /\ inv[i].response.text = "Not Found"
        /\ Contains(Text(i), "404") /\ Contains(Text(i), "Not Found")

\* the error result of an unknown tool: flagged, "Unknown tool: <name>" in the
\* text, and no HTTP request issued
UnknownToolResult(i) ==
    /\ inv[i].outcome.settled = "fulfilled"
    /\ Flagged(i) /\ Result(i).isError = TRUE
    /\ Contains(Text(i), "Unknown tool: " \o inv[i].name)
    /\ inv[i].requests = <<>>

\* C3: the catalog has ten names, and an invocation ends with the unknown-tool
\* error result if and only if its name is not one of them.
C3_UnknownToolIffNotInCatalog ==
    /\ Cardinality(CatalogNames) = 10
    /\ \A i \in DOMAIN inv :
           Done(i) => (UnknownToolResult(i) <=> inv[i].name \notin CatalogNames)

\* delete_sheet was called and answered "Unknown tool: delete_sheet"
C3_Witness ==
    \E i \in DOMAIN inv :
        /\ Done(i) /\ inv[i].name = "delete_sheet"
        /\ Text(i) = "Error: Unknown tool: delete_sheet"

\* the catalog r names the ten tools of the table, each with the table's
\* required list
MatchesTable(r) ==
    /\ DOMAIN r = {"tools"}
    /\ Len(r.tools) = Len(TableNames)
    /\ \A k \in DOMAIN TableNames :
           /\ r.tools[k].name = TableNames[k]
           /\ r.tools[k].inputSchema.required = TableRequired[TableNames[k]]

\* C4: a list-tools request changes neither the configuration nor any
\* invocation, and returns the table's catalog, the same as the request before
\* it returned, whatever invocations ran in between.
C4_ListToolsIsStatic ==
    [][nList' # nList =>
          /\ UNCHANGED <<config, inv>>
          /\ MatchesTable(listed')
          /\ (nList > 0 => listed' = listed)]_vars

\* the catalog was listed twice, around a finished invocation
C4_Witness ==
    /\ nList >= 2 /\ MatchesTable(listed)
    /\ \E i \in DOMAIN inv : Done(i)

\* C5: an invocation of a catalog tool with its required arguments present has
\* issued exactly one HTTP request, while it waits and after it ended, also
\* when the request failed.
C5_OneRequestPerInvocation ==
    \A i \in DOMAIN inv :
        (Started(i) /\ inv[i].name \in SeqSet(TableNames) /\ RequiredPresent(i))
            => Len(inv[i].requests) = 1

\* a request that failed in transport, and still only one request
C5_Witness ==
    \E i \in DOMAIN inv :
        /\ Settled(i) /\ inv[i].response.failed
        /\ inv[i].name = "write_sheet" /\ RequiredPresent(i)
        /\ Len(inv[i].requests) = 1

\* C6: a catalog tool invoked with a mapping that lacks one of its required
\* arguments never ends with a success text: its result is error-flagged.
C6_MissingRequiredArgumentIsRejected ==
    \A i \in DOMAIN inv :
        (Done(i) /\ inv[i].name \in SeqSet(TableNames) /\ ~inv[i].args.undef
         /\ ~RequiredPresent(i))
            => (inv[i].outcome.settled = "fulfilled" /\ Flagged(i))

StrFields(o, K) == {o[k] : k \in K \cap DOMAIN o}
NumFields(o, K) == {NumStr(o[k]) : k \in K \cap DOMAIN o}
\* the values of the entries of the rows
RowValues(rows) == UNION {{rows[r][e][2] : e \in DOMAIN rows[r]} : r \in DOMAIN rows}
\* the cells of a 2D array
Cells(values) == UNION {SeqSet(values[r]) : r \in DOMAIN values}

\* every literal value of the JSON object o returned to the tool, as text
ResponseLiterals(name, o) ==
    CASE name = "create_spreadsheet" ->
            StrFields(o, {"spreadsheetId", "spreadsheetUrl", "message"})
      [] name = "read_sheet" ->
            StrFields(o, {"range"}) \cup NumFields(o, {"rowCount"})
            \cup (IF "headers" \in DOMAIN o THEN SeqSet(o.headers) ELSE {})
            \cup (IF "data" \in DOMAIN o THEN RowValues(o.data) ELSE {})
      [] name = "write_sheet" ->
            StrFields(o, {"updatedRange"})
            \cup NumFields(o, {"updatedCells", "updatedRows", "updatedColumns"})
      [] name = "append_to_sheet" ->
            IF "updates" \in DOMAIN o
            THEN StrFields(o.updates, {"updatedRange"})
                 \cup NumFields(o.updates, {"updatedCells"})
            ELSE {}
      [] name = "clear_range" -> StrFields(o, {"clearedRange"})
      [] name = "batch_get_ranges" ->
            IF "valueRanges" \in DOMAIN o
            THEN UNION {StrFields(o.valueRanges[k], {"range"})
                        \cup (IF "values" \in DOMAIN o.valueRanges[k]
                              THEN Cells(o.valueRanges[k].values) ELSE {})
                        : k \in DOMAIN o.valueRanges}
            ELSE {}
      [] name = "batch_update_ranges" -> NumFields(o, {"totalUpdatedCells"})
      [] name = "get_sheet_metadata" ->
            StrFields(o, {"spreadsheetId"})
            \cup (IF "properties" \in DOMAIN o
                  THEN StrFields(o.properties, {"title", "locale", "timeZone"}) ELSE {})
            \cup (IF "sheets" \in DOMAIN o
                  THEN UNION {StrFields(o.sheets[k], {"title"})
                              \cup NumFields(o.sheets[k], {"sheetId"})
                              \cup NumFields(o.sheets[k].gridProperties,
                                             {"rowCount", "columnCount"})
                              : k \in DOMAIN o.sheets}
                  ELSE {})
      [] name = "delete_rows" -> NumFields(o, {"deletedRows"})
      [] name = "batch_update_spreadsheet" -> StrFields(o, {"spreadsheetId"})

\* the literal values each branch puts in its success text
FormattedLiterals(name, o) ==
    CASE name = "create_spreadsheet" -> StrFields(o, {"spreadsheetId", "spreadsheetUrl"})
      [] name = "read_sheet" ->
            StrFields(o, {"range"}) \cup NumFields(o, {"rowCount"})
            \cup (IF "headers" \in DOMAIN o THEN SeqSet(o.headers) ELSE {})
            \cup (IF "data" \in DOMAIN o
                  THEN RowValues(SubSeq(o.data, 1, Min(Len(o.data), 10))) ELSE {})
      [] name = "batch_get_ranges" ->
            IF "valueRanges" \in DOMAIN o
            THEN UNION {StrFields(o.valueRanges[k], {"range"})
                        \cup {NumStr(IF "values" \in DOMAIN o.valueRanges[k]
                                     THEN Len(o.valueRanges[k].values) ELSE 0)}
                        : k \in DOMAIN o.valueRanges}
            ELSE {}
      [] name \in {"delete_rows", "batch_update_spreadsheet"} -> {}
      [] OTHER -> ResponseLiterals(name, o)

\* the invocation ended with a success text built from a JSON object
SucceededOnObject(i) == Succeeded(i) /\ ~inv[i].response.json.null

\* C7 as stated: the success text of every branch contains every literal value
\* of the response (here for invocations with all required arguments given).
C7_TextHoldsEveryResponseValue ==
    \A i \in DOMAIN inv :
        (SucceededOnObject(i) /\ RequiredPresent(i)) =>
            \A v \in ResponseLiterals(inv[i].name, inv[i].response.json.o) :
                Contains(Text(i), v)

\* C7 amended: the success text contains the response values its branch
\* formats: all of them for write_sheet, append_to_sheet, clear_range,
\* batch_update_ranges and get_sheet_metadata; spreadsheetId and spreadsheetUrl
\* but not message for create_spreadsheet; range, rowCount, the headers and the
\* values of the first ten data rows for read_sheet; the range and the row
\* count of each value range for batch_get_ranges; none for delete_rows and
\* batch_update_spreadsheet.
C7_TextHoldsFormattedValues ==
    \A i \in DOMAIN inv :
        SucceededOnObject(i) =>
            \A v \in FormattedLiterals(inv[i].name, inv[i].response.json.o) :
                Contains(Text(i), v)

\* a create_spreadsheet success on the whole fixture: id and URL are in the text
C7_Witness ==
    \E i \in DOMAIN inv :
        /\ SucceededOnObject(i) /\ inv[i].name = "create_spreadsheet"
        /\ inv[i].response.json.o = CreateFixture
        /\ Contains(Text(i), "ssid-77")
        /\ Contains(Text(i), "https://docs.example/d/ssid-77")

\* the data rows of a read_sheet response
DataRows(i) ==
    IF "data" \in DOMAIN inv[i].response.json.o
    THEN inv[i].response.json.o.data ELSE <<>>

\* rows 1..k as "Row 1: ..." to "Row k: ...", one per line
RECURSIVE Listing(_, _)
Listing(rows, k) ==
    IF k = 0 THEN ""
    ELSE Listing(rows, k - 1) \o (IF k > 1 THEN "\n" ELSE "")
         \o "Row " \o NumStr(k) \o ": " \o RowEntries(rows[k])

ReadSheetSucceeded(i) == SucceededOnObject(i) /\ inv[i].name = "read_sheet"

\* C8 as stated: with N > 10 data rows the text of a read_sheet call with its
\* sheetId carries the marker "...and <N - 10> more rows".
C8_MarkerAsQuoted ==
    \A i \in DOMAIN inv :
        (ReadSheetSucceeded(i) /\ RequiredPresent(i) /\ Len(DataRows(i)) > 10)
            => Contains(Text(i), "...and " \o NumStr(Len(DataRows(i)) - 10) \o " more rows")

\* C8 amended: the text ends with the listing of the first min(N, 10) data
\* rows, numbered from Row 1 in response order; for N > 10 a line
\* "... and <N - 10> more rows" follows and no further row is listed; for
\* 1 <= N <= 10 there is no marker; for N = 0 or no data the text says
\* "No data found".
C8_ListsFirstTenRows ==
    \A i \in DOMAIN inv :
        ReadSheetSucceeded(i) =>
            LET rows == DataRows(i)
                N    == Len(rows)
            IN  /\ N > 10 =>
                      /\ EndsWith(Text(i), "\n\nData:\n" \o Listing(rows, 10)
                             \o "\n... and " \o NumStr(N - 10) \o " more rows")
                      /\ \A k \in 11..N : ~Contains(Text(i), "Row " \o NumStr(k) \o ":")
                /\ (1 <= N /\ N <= 10) =>
                      /\ EndsWith(Text(i), "\n\nData:\n" \o Listing(rows, N))
                      /\ ~Contains(Text(i), "more rows")
                /\ N = 0 => EndsWith(Text(i), "\n\nData:\nNo data found")

\* eleven rows: ten listed and "... and 1 more rows"
C8_Witness ==
    \E i \in DOMAIN inv :
        /\ ReadSheetSucceeded(i) /\ Len(DataRows(i)) = 11
        /\ Contains(Text(i), "Row 10: name: item10, qty: 30\n... and 1 more rows")
        /\ ~Contains(Text(i), "item11")

\* C9: a delete_rows invocation whose request succeeded reports "startIndex to
\* endIndex - 1" and "(endIndex - startIndex rows total)" from its arguments,
\* whatever the response body was.
C9_DeletedSpanFromArguments ==
    \A i \in DOMAIN inv :
        (Returned(i) /\ inv[i].name = "delete_rows") =>
            LET s == inv[i].args.m.startIndex
                e == inv[i].args.m.endIndex
            IN  /\ inv[i].outcome.settled = "fulfilled" /\ ~Flagged(i)
                /\ Text(i) = "Successfully deleted rows from index " \o NumStr(s)
                             \o " to " \o NumStr(e - 1)
                             \o " (" \o NumStr(e - s) \o " rows total)"
                /\ Contains(Text(i), NumStr(s) \o " to " \o NumStr(e - 1))
                /\ Contains(Text(i), "(" \o NumStr(e - s) \o " rows total)")

\* startIndex 2 and endIndex 5 on a body that reports 99 deleted rows
C9_Witness ==
    \E i \in DOMAIN inv :
        /\ Returned(i) /\ inv[i].name = "delete_rows"
        /\ inv[i].args.m.startIndex = 2 /\ inv[i].args.m.endIndex = 5
        /\ HasField(inv[i].response.json, "deletedRows")
        /\ Contains(Text(i), "2 to 4") /\ Contains(Text(i), "3 rows total")

\* C10: the request of a catalog tool whose sheetId (for create_spreadsheet:
\* nothing) is given has the method and the path of the outbound interface
\* under the configured base URL, and the header Authorization: Bearer <apiKey>.
C10_MethodPathAndBearer ==
    \A i \in DOMAIN inv :
        (Started(i) /\ inv[i].requests # <<>>) =>
            LET route == TableRoutes[inv[i].name]
                req   == inv[i].requests[1]
            IN  /\ req.headers["Authorization"] = "Bearer " \o config.apiKey
                /\ (~route.id \/ "sheetId" \in DOMAIN inv[i].args.m) =>
                      /\ req.method = route.method
                      /\ BeforeQuery(req.url) =
                             config.baseUrl \o route.before
                             \o (IF route.id THEN inv[i].args.m.sheetId ELSE "")
                             \o route.after

\* a clear_range request: DELETE /api/sheets/sheet-1/values with the bearer key
C10_Witness ==
    \E i \in DOMAIN inv :
        /\ Started(i) /\ inv[i].name = "clear_range" /\ inv[i].requests # <<>>
        /\ inv[i].requests[1].method = "DELETE"
        /\ "sheetId" \in DOMAIN inv[i].args.m
        /\ BeforeQuery(inv[i].requests[1].url)
               = config.baseUrl \o "/api/sheets/sheet-1/values"
        /\ inv[i].requests[1].headers["Authorization"] = "Bearer " \o config.apiKey

\* the optional arguments of the table of section 4.1 with their defaults
TableDefaults ==
    [create_spreadsheet       |-> NoDefaults,
     read_sheet               |-> [range |-> "A:Z", majorDimension |-> "ROWS",
                                   valueRenderOption |-> "FORMATTED_VALUE"],
     write_sheet              |-> [valueInputOption |-> "USER_ENTERED"],
     append_to_sheet          |-> [valueInputOption |-> "USER_ENTERED"],
     clear_range              |-> NoDefaults,
     batch_get_ranges         |-> [majorDimension |-> "ROWS",
                                   valueRenderOption |-> "FORMATTED_VALUE"],
     batch_update_ranges      |-> [valueInputOption |-> "USER_ENTERED"],
     get_sheet_metadata       |-> NoDefaults,
     delete_rows              |-> [sheetTabId |-> 0],
     batch_update_spreadsheet |-> NoDefaults]

\* the part of s before the first c, and the part after it
RECURSIVE UpTo(_, _)
UpTo(s, c) ==
    IF Len(s) = 0 \/ SubSeq(s, 1, 1) = c THEN ""
    ELSE SubSeq(s, 1, 1) \o UpTo(SubSeq(s, 2, Len(s)), c)
After(s, c) ==
    LET n == Len(UpTo(s, c))
    IN  IF n >= Len(s) THEN "" ELSE SubSeq(s, n + 2, Len(s))

\* the character a percent escape stands for
Unescape(hex) ==
    CASE hex = "3A" -> ":"
      [] hex = "21" -> "!"
      [] hex = "2F" -> "/"
      [] hex = "3F" -> "?"
      [] hex = "26" -> "&"
      [] hex = "3D" -> "="
      [] OTHER      -> "%" \o hex

\* how the receiving end decodes a query component
RECURSIVE UrlDecode(_)
UrlDecode(s) ==
    IF Len(s) = 0 THEN ""
    ELSE IF SubSeq(s, 1, 1) = "%" /\ Len(s) >= 3
    THEN Unescape(SubSeq(s, 2, 3)) \o UrlDecode(SubSeq(s, 4, Len(s)))
    ELSE IF SubSeq(s, 1, 1) = "+" THEN " " \o UrlDecode(SubSeq(s, 2, Len(s)))
    ELSE SubSeq(s, 1, 1) \o UrlDecode(SubSeq(s, 2, Len(s)))

\* the value of parameter key in the query string q, as the receiving end reads it
RECURSIVE QueryParam(_, _)
QueryParam(q, key) ==
    IF Len(q) = 0 THEN Undefined
    ELSE LET pair == UpTo(q, "&")
         IN  IF UrlDecode(UpTo(pair, "=")) = key
             THEN Def(UrlDecode(After(pair, "=")))
             ELSE QueryParam(After(q, "&"), key)

\* the value the request of invocation i carries for the optional argument k:
\* a query parameter for read_sheet and delete_rows, a body property otherwise
SentValue(i, k) ==
    IF inv[i].name \in {"read_sheet", "delete_rows"}
    THEN QueryParam(After(inv[i].requests[1].url, "?"), k)
    ELSE IF inv[i].requests[1].body.def THEN Prop(inv[i].requests[1].body.v, k)
    ELSE Undefined

\* the supplied value of k, or the table's default, as it reads on the wire
ExpectedValue(i, k) ==
    LET v == IF k \in DOMAIN inv[i].args.m THEN inv[i].args.m[k]
             ELSE TableDefaults[inv[i].name][k]
    IN  IF k = "sheetTabId" THEN NumStr(v) ELSE v

\* C11: every request of a catalog tool carries, for each optional argument of
\* the table, the supplied value when the argument was given and the table's
\* default otherwise; and the defaults the catalog declares, as list tools
\* returns them, are the table's defaults.
C11_OptionalArgumentsAndDefaults ==
    /\ nList > 0 =>
           \A t \in DOMAIN listed.tools :
               listed.tools[t].inputSchema.defaults = TableDefaults[listed.tools[t].name]
    /\ \A i \in DOMAIN inv :
           (Started(i) /\ inv[i].requests # <<>>) =>
               \A k \in DOMAIN TableDefaults[inv[i].name] :
                   SentValue(i, k) = Def(ExpectedValue(i, k))

\* a read_sheet request with range left out and majorDimension supplied, after
\* the catalog was listed
C11_Witness ==
    /\ nList > 0
    /\ \E i \in DOMAIN inv :
           /\ Started(i) /\ inv[i].name = "read_sheet" /\ inv[i].requests # <<>>
           /\ "range" \notin DOMAIN inv[i].args.m
           /\ "majorDimension" \in DOMAIN inv[i].args.m
           /\ Contains(inv[i].requests[1].url, "?range=A%3AZ&majorDimension=COLUMNS&")
           /\ SentValue(i, "range") = Def("A:Z")

\* invocations i and j had the same name, the same arguments and, when a
\* request was issued, the same outcome of that request
SameInputs(i, j) ==
    /\ inv[i].name = inv[j].name
    /\ inv[i].args = inv[j].args
    /\ Settled(i) = Settled(j)
    /\ Settled(i) => inv[i].response = inv[j].response

\* finished invocations with the same inputs hold the same result
Determinate ==
    \A i, j \in DOMAIN inv :
        (Done(i) /\ Done(j) /\ SameInputs(i, j)) => inv[i].outcome = inv[j].outcome

\* C12: with several invocations in flight and responses arriving in any
\* order, no step changes the configuration, a step of one invocation leaves
\* every other invocation (its inputs and its result) as it was, and the result
\* of an invocation is the one any invocation with the same name, arguments
\* and response gets, whether it ran alone or beside others.
C12_InvocationsAreIndependent ==
    [][/\ config' = config
       /\ \A i \in DOMAIN inv :
              inv'[i] # inv[i] => \A j \in DOMAIN inv \ {i} : inv'[j] = inv[j]
       /\ Determinate']_vars

\* a create_spreadsheet call that resumed while another invocation waited, and
\* a get_sheet_metadata call, each holding the text of its own arguments and
\* response
C12_Witness ==
    \E i, j \in DOMAIN inv :
        /\ i # j /\ Succeeded(i) /\ Succeeded(j)
        /\ inv[i].concurrent
        /\ inv[i].name = "create_spreadsheet" /\ inv[i].args.m.title = "Plan"
        /\ inv[i].response.json.o.spreadsheetId = "ssid-88"
        /\ inv[j].name = "get_sheet_metadata"
        /\ Contains(Text(i), "\"Plan\"\nSpreadsheet ID: ssid-88")
        /\ Contains(Text(j), "Spreadsheet: Budget\nSpreadsheet ID: ssid-77")

\* invocations i and j are get_sheet_metadata calls with identical arguments
\* whose requests were answered alike
SameMetadataCall(i, j) ==
    /\ Settled(i) /\ Settled(j)
    /\ inv[i].name = "get_sheet_metadata" /\ inv[j].name = "get_sheet_metadata"
    /\ inv[i].args = inv[j].args
    /\ inv[i].response = inv[j].response

\* C13: two get_sheet_metadata calls with identical arguments whose requests
\* got the same response return the same text (and the same error flag),
\* whatever the other invocations did before, between or beside them.
C13_MetadataTwiceSameText ==
    \A i, j \in DOMAIN inv :
        SameMetadataCall(i, j) => (Text(i) = Text(j) /\ Flagged(i) = Flagged(j))

\* two get_sheet_metadata calls for sheet-1, both answered with the fixture,
\* one resumed while the other waited and one resumed after the other had
\* finished, holding the same listing
C13_Witness ==
    \E i, j \in DOMAIN inv :
        /\ i # j /\ SameMetadataCall(i, j)
        /\ Succeeded(i) /\ Succeeded(j)
        /\ inv[i].args = Args([sheetId |-> "sheet-1"])
        /\ inv[i].response = OkJson(JObj(MetadataFixture))
        /\ inv[i].concurrent /\ ~inv[j].concurrent
        /\ Text(i) = Text(j)
        /\ Contains(Text(j), "Sheets:\n* Summary (ID: 0, 1000 rows x 26 cols)\n* Raw")

====
